---- MODULE Spec2Model ----
(***************************************************************************)
(* Model of the parallel playlist runner of playlist_downloader.py:        *)
(* download_playlist_parallel (the coordinator), the ThreadPoolExecutor    *)
(* worker threads it starts, and download_video_worker (one job's retry    *)
(* loop).  A job is one entry of the list "videos"; it is identified by    *)
(* its slot i in that list and carries its playlist position as "title".   *)
(***************************************************************************)
EXTENDS Integers, Sequences, FiniteSets, TLC

\* ------------------------------------------------------------------ bounds
\* longest playlist get_playlist_info returns in the model
MaxLen == 2
\* largest max_workers the caller passes in the model
MaxWorkers == 2

\* ------------------------------------------------------- program constants
\* download_video_worker(..., max_retries=3); the coordinator never passes it
max_retries == 3
\* str(...).zfill(3)
ZfillWidth == 3

VARIABLES
    pc,            \* where download_playlist_parallel is
    max_workers,   \* argument max_workers
    video_range,   \* argument video_range: <<>> models None, else <<start, end>>
    playlist,      \* what get_playlist_info returned: [isNone, entries]
    videos,        \* the list "videos" after the range filter and indexing
    submitted,     \* number of videos already handed to executor.submit
    work_queue,    \* the executor's FIFO queue of work items (slots)
    fut,           \* per slot: state of the job's future / worker call
    attempt,       \* per slot: loop variable "attempt" of download_video_worker
    last,          \* per slot: how the most recent finished attempt ended
    result,        \* per slot: the dict download_video_worker returned
    successful,    \* counter "successful"
    failed,        \* list "failed"
    interrupted,   \* a KeyboardInterrupt was raised in the main thread
    started_at_interrupt, \* history: how many jobs had been started by then
    loaded,        \* value of "successful" read by the "successful += 1" under way
    sv_pc,         \* where download_single_video is ("off": it is not called)
    sv_quality,    \* argument quality of download_single_video
    sv_attempt,    \* loop variable "attempt" of download_single_video
    sv_hist,       \* history: how the attempts of download_single_video ended
    sv_ret,        \* what download_single_video returned
    path,          \* the menu path that calls the runner ("call": a direct call)
    workers_entry, \* what the user typed at "Number of parallel downloads"
    downloading,   \* DownloaderGUI: the flag self.downloading
    gui_th,        \* DownloaderGUI: the threads start_download has started
    gui_dialog,    \* DownloaderGUI: the message box start_download showed last
    gui_log,       \* DownloaderGUI: the last line of the log widget
    dp_pc,         \* where download_playlist is ("off": it is not called)
    dp_last,       \* how the yt-dlp process of download_playlist ended
    dp_ret,        \* what download_playlist returned
    fm_pc,         \* where fix_mp3_metadata is ("off": it is not called)
    fm_file,       \* the MP3 file: does it exist, can mutagen read it, its tags
    fm_current,    \* local "current" of fix_mp3_metadata
    fm_ret         \* what fix_mp3_metadata returned

vars == <<pc, max_workers, video_range, playlist, videos, submitted, work_queue,
          fut, attempt, last, result, successful, failed, interrupted,
          started_at_interrupt, loaded, sv_pc, sv_quality, sv_attempt, sv_hist,
          sv_ret, path, workers_entry, downloading, gui_th, gui_dialog, gui_log,
          dp_pc, dp_last, dp_ret, fm_pc, fm_file, fm_current, fm_ret>>

\* the state of the menus
entryVars == <<path, workers_entry>>

\* the state of fix_mp3_metadata (music_downloader.py)
fixVars == <<fm_pc, fm_file, fm_current, fm_ret>>

\* the state of download_playlist
seqVars == <<dp_pc, dp_last, dp_ret>>

\* the state of the GUI window
guiVars == <<downloading, gui_th, gui_dialog, gui_log>>

\* the state of download_single_video
singleVars == <<sv_pc, sv_quality, sv_attempt, sv_hist, sv_ret>>

Min(a, b) == IF a < b THEN a ELSE b
Max(a, b) == IF a > b THEN a ELSE b

\* ------------------------------------------------------------ pure helpers
\* Python's index normalisation inside a slice of a list of length n
SliceIndex(x, n) == IF x < 0 THEN Max(x + n, 0) ELSE Min(x, n)

\* Python's s[lo:hi] (lo, hi 0-based, hi exclusive, negative counts from the end)
PySlice(s, lo, hi) ==
    LET a == SliceIndex(lo, Len(s))
        b == SliceIndex(hi, Len(s))
    IN  IF b > a THEN [k \in 1..(b - a) |-> s[a + k]] ELSE <<>>

DigitChar(d) == <<"0", "1", "2", "3", "4", "5", "6", "7", "8", "9">>[d + 1]

RECURSIVE Digits(_)
Digits(n) == IF n < 10 THEN <<DigitChar(n)>>
             ELSE Digits(n \div 10) \o <<DigitChar(n % 10)>>

\* Python's str(n) for an int, as a sequence of characters
PyStr(n) == IF n < 0 THEN <<"-">> \o Digits(-n) ELSE Digits(n)

Zeros(k) == [i \in 1..k |-> "0"]

\* Python's s.zfill(w): pad with zeros on the left, after a leading sign
Zfill(s, w) ==
    IF Len(s) >= w THEN s
    ELSE IF Len(s) > 0 /\ s[1] = "-"
         THEN <<"-">> \o Zeros(w - Len(s)) \o Tail(s)
         ELSE Zeros(w - Len(s)) \o s

\* video['index'] of the i-th video of the filtered list
IndexLabel(i, range) ==
    Zfill(PyStr(i + (IF range # <<>> THEN range[1] - 1 ELSE 0)), ZfillWidth)

\* the "Apply video range filter" block
ApplyRange(vs, range) ==
    IF range # <<>>
    THEN LET start == Max(1, range[1])
             end == Min(Len(vs), range[2])
         IN  PySlice(vs, start - 1, end)
    ELSE vs

\* the "Add index to video info" loop
AddIndex(vs, range) ==
    [i \in 1..Len(vs) |-> [title |-> vs[i].title, index |-> IndexLabel(i, range)]]

\* ---------------------------------------------------- download_video_worker
\* how one attempt (one subprocess.run call) can end.  "exit_permanent" is a
\* non-zero exit whose cause no retry can remove (a malformed URL, say); the
\* code sees the same return code as for "exit".
Outcomes == {"ok", "exit", "exit_permanent", "timeout", "exception"}
Failures == Outcomes \ {"ok"}

ReturnCode(o) == IF o = "ok" THEN 0 ELSE 1

\* variant: "attempt <= max_retries": the worker also sleeps after the last
\* attempt and leaves the loop through the statement after it
HasRetryTooMany(a) == a <= max_retries

\* variant: the retry test is off by one, the last attempt is never made
HasRetryOffByOne(a) == a < max_retries - 1

\* "if attempt < max_retries" of the three failure branches
HasRetry(a) == a < max_retries

\* variant: every failure is reported as "Max retries exceeded"
ErrorTextOneForAll(o) == "Max retries exceeded"

ErrorText(o) ==
    CASE o \in {"exit", "exit_permanent"} -> "Max retries exceeded"
      [] o = "timeout" -> "Timeout"
      [] o = "exception" -> "str(e)"

SuccessResult(v) == [success |-> TRUE, title |-> v.title, index |-> v.index,
                     error |-> "<absent>"]
FailResult(v, err) == [success |-> FALSE, title |-> v.title, index |-> v.index,
                       error |-> err]

\* variant: a non-zero exit is returned as a failure at once, without a retry
AfterAttemptGiveUpOnExit(v, a, o) ==
    IF o \in {"timeout", "exception"}
    THEN IF HasRetry(a) THEN [do |-> "sleep"]
         ELSE [do |-> "return", value |-> FailResult(v, ErrorText(o))]
    ELSE IF ReturnCode(o) = 0
         THEN [do |-> "return", value |-> SuccessResult(v)]
         ELSE [do |-> "return", value |-> FailResult(v, ErrorText(o))]

\* variant: the "return" of the success branch is missing before the last
\* attempt, so the loop goes on after a successful attempt
AfterAttemptSuccessNoReturn(v, a, o) ==
    IF o \in {"timeout", "exception"}
    THEN IF HasRetry(a) THEN [do |-> "sleep"]
         ELSE [do |-> "return", value |-> FailResult(v, ErrorText(o))]
    ELSE IF ReturnCode(o) = 0
         THEN IF HasRetry(a) THEN [do |-> "sleep"]
              ELSE [do |-> "return", value |-> SuccessResult(v)]
         ELSE IF HasRetry(a) THEN [do |-> "sleep"]
              ELSE [do |-> "return", value |-> FailResult(v, ErrorText(o))]

\* variant: "except subprocess.TimeoutExpired" returns the Timeout failure at
\* once, without looking at the attempts left
AfterAttemptTimeoutFinal(v, a, o) ==
    IF o = "timeout" THEN [do |-> "return", value |-> FailResult(v, ErrorText(o))]
    ELSE IF o = "exception"
    THEN IF HasRetry(a) THEN [do |-> "sleep"]
         ELSE [do |-> "return", value |-> FailResult(v, ErrorText(o))]
    ELSE IF ReturnCode(o) = 0
         THEN [do |-> "return", value |-> SuccessResult(v)]
         ELSE IF HasRetry(a) THEN [do |-> "sleep"]
              ELSE [do |-> "return", value |-> FailResult(v, ErrorText(o))]

\* variant: the "except Exception" clause is missing, the exception of an
\* attempt leaves download_video_worker
AfterAttemptUncaught(v, a, o) ==
    IF o = "exception" THEN [do |-> "raise"]
    ELSE IF o = "timeout"
    THEN IF HasRetry(a) THEN [do |-> "sleep"]
         ELSE [do |-> "return", value |-> FailResult(v, ErrorText(o))]
    ELSE IF ReturnCode(o) = 0
         THEN [do |-> "return", value |-> SuccessResult(v)]
         ELSE IF HasRetry(a) THEN [do |-> "sleep"]
              ELSE [do |-> "return", value |-> FailResult(v, ErrorText(o))]

\* one pass through the body of "for attempt in range(1, max_retries + 1)":
\* what the worker does once the attempt numbered a has ended with outcome o
AfterAttempt(v, a, o) ==
    IF o \in {"timeout", "exception"}
    THEN IF HasRetry(a) THEN [do |-> "sleep"]
         ELSE [do |-> "return", value |-> FailResult(v, ErrorText(o))]
    ELSE IF ReturnCode(o) = 0
         THEN [do |-> "return", value |-> SuccessResult(v)]
         ELSE IF HasRetry(a) THEN [do |-> "sleep"]
              ELSE [do |-> "return", value |-> FailResult(v, ErrorText(o))]

\* the statement after the loop: return {'success': False, ...} with no 'error'
FallThrough(v) == FailResult(v, "<absent>")

\* ------------------------------------------------------ thread pool helpers
Slots == 1..Len(videos)
\* jobs that occupy a worker thread: inside subprocess.run or inside time.sleep
Busy == {i \in Slots : fut[i] \in {"running", "backoff"}}
\* variant: the pool starts one thread more than max_workers
IdleWorkerOffByOne == Cardinality(Busy) <= max_workers
\* ThreadPoolExecutor starts at most max_workers threads, each runs one item
IdleWorker == Cardinality(Busy) < max_workers
\* jobs a pool thread has taken from the queue
Started == {i \in Slots : fut[i] \notin {"unsubmitted", "queued", "cancelled"}}

NoResult == [success |-> FALSE, title |-> 0, index |-> <<>>, error |-> "<none>"]

\* --------------------------------------------------------------------- Init
VideoRanges == {<<>>} \cup ((0..MaxLen) \X (-1..MaxLen + 1))

\* the arguments and locals of download_playlist_parallel before its first line
RunnerIdle ==
    /\ playlist = [isNone |-> TRUE, entries |-> <<>>]
    /\ videos = <<>>
    /\ submitted = 0
    /\ work_queue = <<>>
    /\ fut = <<>>
    /\ attempt = <<>>
    /\ last = <<>>
    /\ result = <<>>
    /\ successful = 0
    /\ failed = <<>>
    /\ interrupted = FALSE
    /\ started_at_interrupt = 0
    /\ loaded = 0

\* download_single_video is not called
SingleOff ==
    /\ sv_pc = "off"
    /\ sv_quality = "best"
    /\ sv_attempt = 0
    /\ sv_hist = <<>>
    /\ sv_ret = "none"

\* the qualities the menus offer, and one they do not
Qualities == {"best", "1080p", "720p", "480p", "worst", "other"}

\* nothing was typed: the function is called with its arguments
NoEntry == [kind |-> "empty", val |-> 0]

\* the tags fix_mp3_metadata asks for
Tags == {"title", "artist", "album", "year", "genre"}

NoTags == [f \in Tags |-> ""]

\* fix_mp3_metadata is not called
FixOff ==
    /\ fm_pc = "off"
    /\ fm_file = [exists |-> FALSE, readable |-> FALSE, tags |-> NoTags]
    /\ fm_current = [isNone |-> TRUE, tags |-> NoTags]
    /\ fm_ret = "none"

\* download_playlist is not called
SequentialOff ==
    /\ dp_pc = "off"
    /\ dp_last = "none"
    /\ dp_ret = "none"

\* DownloaderGUI.__init__: no window, or the window before any click
GuiOff ==
    /\ downloading = FALSE
    /\ gui_th = <<>>
    /\ gui_dialog = "none"
    /\ gui_log = "none"

\* download_playlist_parallel(url, output_dir, quality, max_workers, video_range)
InitPlaylist ==
    /\ pc = "fetch"
    /\ path = "call"
    /\ workers_entry = NoEntry
    /\ max_workers \in 1..MaxWorkers
    /\ video_range \in VideoRanges
    /\ RunnerIdle
    /\ GuiOff
    /\ SequentialOff
    /\ FixOff
    /\ SingleOff

\* download_single_video(url, output_dir, quality): first pass of its loop
InitSingle ==
    /\ pc = "single"
    /\ path = "call"
    /\ workers_entry = NoEntry
    /\ max_workers = 1
    /\ video_range = <<>>
    /\ RunnerIdle
    /\ GuiOff
    /\ SequentialOff
    /\ FixOff
    /\ sv_pc = "attempt"
    /\ sv_quality \in Qualities
    /\ sv_attempt = 1
    /\ sv_hist = <<>>
    /\ sv_ret = "none"

\* download_playlist(url, output_dir, quality): yt-dlp runs on the playlist
InitSequential ==
    /\ pc = "sequential"
    /\ path = "call"
    /\ workers_entry = NoEntry
    /\ max_workers = 1
    /\ video_range = <<>>
    /\ RunnerIdle
    /\ GuiOff
    /\ SingleOff
    /\ dp_pc = "run"
    /\ dp_last = "none"
    /\ dp_ret = "none"
    /\ FixOff

\* fix_mp3_metadata(mp3_file): the file is missing, or is there with some
\* tags, readable by mutagen or not
InitFix ==
    /\ pc = "fix"
    /\ path = "call"
    /\ workers_entry = NoEntry
    /\ max_workers = 1
    /\ video_range = <<>>
    /\ RunnerIdle
    /\ GuiOff
    /\ SingleOff
    /\ SequentialOff
    /\ fm_pc = "start"
    /\ \E e, r \in BOOLEAN, t \in [Tags -> {"", "old"}] :
          /\ e \/ (~r /\ t = NoTags)
          /\ r \/ t = NoTags
          /\ fm_file = [exists |-> e, readable |-> r, tags |-> t]
    /\ fm_current = [isNone |-> TRUE, tags |-> NoTags]
    /\ fm_ret = "none"

Init == InitPlaylist \/ InitSingle \/ InitSequential \/ InitFix


\* ------------------------------------------------------------- coordinator
\* pc after the dict comprehension has submitted n of the videos
AfterSubmit(n) == IF n = Len(videos') THEN "collect" ELSE "submit"

\* videos = get_playlist_info(url), which builds one dict per playlist entry
\* (isNone: the fetch failed, len: the number of entries); "if not videos:
\* return False"; the range filter
Fetch(isNone, len) ==
    /\ pc = "fetch"
    /\ playlist' = [isNone |-> isNone,
                    entries |-> [p \in 1..len |-> [title |-> p]]]
    /\ IF isNone \/ len = 0
       THEN /\ pc' = "failed"
            /\ UNCHANGED <<videos, fut, attempt, last, result>>
       ELSE /\ videos' = ApplyRange(playlist'.entries, video_range)
            /\ fut' = [i \in 1..Len(videos') |-> "unsubmitted"]
            /\ attempt' = [i \in 1..Len(videos') |-> 0]
            /\ last' = [i \in 1..Len(videos') |-> "none"]
            /\ result' = [i \in 1..Len(videos') |-> NoResult]
            /\ pc' = "index"
    /\ UNCHANGED <<max_workers, video_range, submitted, work_queue, successful,
                   failed, interrupted, started_at_interrupt,
                   loaded, singleVars, seqVars, fixVars, entryVars, guiVars>>

FetchPlaylist ==
    \E isNone \in BOOLEAN, len \in 0..MaxLen :
        (isNone => len = 0) /\ Fetch(isNone, len)

\* the loop "for i, video in enumerate(videos, 1): video['index'] = ..."
AddIndexStep ==
    /\ pc = "index"
    /\ videos' = AddIndex(videos, video_range)
    /\ pc' = AfterSubmit(0)
    /\ UNCHANGED <<max_workers, video_range, playlist, submitted, work_queue, fut,
                   attempt, last, result, successful, failed, interrupted,
                   started_at_interrupt, loaded, singleVars, seqVars, fixVars, entryVars, guiVars>>

\* one executor.submit(download_video_worker, video, ...) of the comprehension
Submit ==
    /\ pc = "submit"
    /\ submitted < Len(videos)
    /\ submitted' = submitted + 1
    /\ work_queue' = Append(work_queue, submitted + 1)
    /\ fut' = [fut EXCEPT ![submitted + 1] = "queued"]
    /\ UNCHANGED videos
    /\ pc' = AfterSubmit(submitted + 1)
    /\ UNCHANGED <<max_workers, video_range, playlist, attempt, last, result,
                   successful, failed, interrupted, started_at_interrupt,
                   loaded, singleVars, seqVars, fixVars, entryVars, guiVars>>

\* variant: the worker clears the index of the dict it was handed
VideoInfoCleared(v) == [v EXCEPT !.index = <<>>]

\* video_info after the first lines of download_video_worker, which read
\* 'url', 'title' and 'index' and assign nothing to the dict
VideoInfoAfterWorker(v) == v

\* variant: the pool keeps its work items on a stack
TakeWorkLifo(q) == [item |-> q[Len(q)], rest |-> SubSeq(q, 1, Len(q) - 1)]

\* the executor's work queue is first in, first out: a pool thread gets the
\* item submitted earliest
TakeWork(q) == [item |-> Head(q), rest |-> Tail(q)]

\* a pool thread takes the next work item and enters download_video_worker
StartJob ==
    /\ work_queue # <<>>
    /\ IdleWorker
    /\ LET i == TakeWork(work_queue).item IN
         /\ fut' = [fut EXCEPT ![i] = "running"]
         /\ attempt' = [attempt EXCEPT ![i] = 1]
         /\ videos' = [videos EXCEPT ![i] = VideoInfoAfterWorker(videos[i])]
    /\ work_queue' = TakeWork(work_queue).rest
    /\ UNCHANGED <<pc, max_workers, video_range, playlist, submitted,
                   last, result, successful, failed, interrupted, started_at_interrupt,
                   loaded, singleVars, seqVars, fixVars, entryVars, guiVars>>

\* subprocess.run of job i returns, times out or raises
AttemptEnds(i, o) ==
    /\ fut[i] = "running"
    /\ last' = [last EXCEPT ![i] = o]
    /\ LET r == AfterAttempt(videos[i], attempt[i], o) IN
         CASE r.do = "sleep" ->
                /\ fut' = [fut EXCEPT ![i] = "backoff"]
                /\ UNCHANGED result
           [] r.do = "return" ->
                /\ fut' = [fut EXCEPT ![i] = "finished"]
                /\ result' = [result EXCEPT ![i] = r.value]
           [] r.do = "raise" ->
                /\ fut' = [fut EXCEPT ![i] = "raised"]
                /\ UNCHANGED result
    /\ UNCHANGED <<pc, max_workers, video_range, playlist, videos, submitted,
                   work_queue, attempt, successful, failed, interrupted, started_at_interrupt,
                   loaded, singleVars, seqVars, fixVars, entryVars, guiVars>>

\* time.sleep(3) of job i returns: next iteration of the for loop, or the
\* statement after the loop when range(1, max_retries + 1) is exhausted
BackoffEnds(i) ==
    /\ fut[i] = "backoff"
    /\ IF attempt[i] + 1 <= max_retries
       THEN /\ attempt' = [attempt EXCEPT ![i] = attempt[i] + 1]
            /\ fut' = [fut EXCEPT ![i] = "running"]
            /\ UNCHANGED result
       ELSE /\ fut' = [fut EXCEPT ![i] = "finished"]
            /\ result' = [result EXCEPT ![i] = FallThrough(videos[i])]
            /\ UNCHANGED attempt
    /\ UNCHANGED <<pc, max_workers, video_range, playlist, videos, submitted,
                   work_queue, last, successful, failed, interrupted, started_at_interrupt,
                   loaded, singleVars, seqVars, fixVars, entryVars, guiVars>>

\* successful += 1
CountSuccess(n) == n + 1

\* variant: failed = [result] instead of failed.append(result)
RecordFailureOverwrite(f, r) == <<r>>

\* failed.append(result)
RecordFailure(f, r) == Append(f, r)

\* variant: as_completed replaced by a loop over the futures in submission
\* order, each future.result() waiting for that one job
CanCollectInOrder(i) ==
    /\ fut[i] \in {"finished", "raised"}
    /\ \A j \in 1..(i - 1) : fut[j] = "collected"

\* as_completed yields a future once its job has returned or raised
CanCollect(i) == fut[i] \in {"finished", "raised"}

\* variant: the counters are updated by the completions themselves (callbacks
\* in the pool threads), so an update can start while another is under way
LoopFreeConcurrent == TRUE

\* the loop body runs in the main thread only: an iteration starts when the
\* one before has ended
LoopFree == \A j \in Slots : fut[j] # "collecting"

\* an iteration of "for future in as_completed(future_to_video)" starts:
\* future.result() returns the worker's dict or re-raises what the worker
\* raised; for a success the load of "successful += 1" is done
CollectBegin(i) ==
    /\ pc = "collect"
    /\ CanCollect(i)
    /\ LoopFree
    /\ IF fut[i] = "raised"
       THEN /\ pc' = "shutdown"
            /\ fut' = [fut EXCEPT ![i] = "collected"]
            /\ UNCHANGED loaded
       ELSE /\ pc' = pc
            /\ fut' = [fut EXCEPT ![i] = "collecting"]
            /\ loaded' = successful
    /\ UNCHANGED <<max_workers, video_range, playlist, videos, submitted,
                   work_queue, attempt, last, result, successful, failed,
                   interrupted, started_at_interrupt, singleVars, seqVars, fixVars,
                   entryVars, guiVars>>

\* the iteration ends: the store of "successful += 1", or failed.append(result),
\* and the line printed for the job
CollectEnd(i) ==
    /\ pc = "collect"
    /\ fut[i] = "collecting"
    /\ fut' = [fut EXCEPT ![i] = "collected"]
    /\ loaded' = 0
    /\ IF result[i].success
       THEN /\ successful' = CountSuccess(loaded)
            /\ UNCHANGED failed
       ELSE /\ failed' = RecordFailure(failed, result[i])
            /\ UNCHANGED successful
    /\ UNCHANGED <<pc, max_workers, video_range, playlist, videos, submitted,
                   work_queue, attempt, last, result, interrupted,
                   started_at_interrupt, singleVars, seqVars, fixVars, entryVars, guiVars>>

\* as_completed is exhausted, the with block is left, the summary is printed
\* from "successful" and "failed", and True is returned
Finish ==
    /\ pc = "collect"
    /\ \A i \in Slots : fut[i] = "collected"
    /\ pc' = "done"
    /\ UNCHANGED <<max_workers, video_range, playlist, videos, submitted,
                   work_queue, fut, attempt, last, result, successful, failed,
                   interrupted, started_at_interrupt,
                   loaded, singleVars, seqVars, fixVars, entryVars, guiVars>>

\* Ctrl-C while the main thread is inside the with block: KeyboardInterrupt
\* leaves the block through ThreadPoolExecutor.__exit__, i.e. shutdown(wait=True)
KeyboardInterrupt ==
    /\ pc \in {"submit", "collect"}
    /\ interrupted' = TRUE
    /\ started_at_interrupt' = Cardinality(Started)
    /\ pc' = "shutdown"
    /\ UNCHANGED <<max_workers, video_range, playlist, videos, submitted,
                   work_queue, fut, attempt, last, result, successful, failed,
                   loaded, singleVars, seqVars, fixVars, entryVars, guiVars>>

\* shutdown(wait=True) has joined the pool threads, which leave only once the
\* queue is drained; the exception then reaches "except KeyboardInterrupt" of
\* __main__, which prints "Exiting..." (no summary is printed)
ShutdownDone ==
    /\ pc = "shutdown"
    /\ work_queue = <<>>
    /\ Busy = {}
    /\ pc' = "aborted"
    /\ UNCHANGED <<max_workers, video_range, playlist, videos, submitted,
                   work_queue, fut, attempt, last, result, successful, failed,
                   interrupted, started_at_interrupt,
                   loaded, singleVars, seqVars, fixVars, entryVars, guiVars>>

\* ----------------------------------------------------- download_single_video
\* how one attempt (Popen, reading its output, wait) can end: exit code 0,
\* another exit code, an exception, or Ctrl-C
SvOutcomes == {"ok", "exit", "exception", "interrupt"}

\* quality_formats.get(quality, quality_formats['best'])
FormatString(q) ==
    CASE q = "1080p" -> "bestvideo[height<=1080]+bestaudio/best[height<=1080]"
      [] q = "720p" -> "bestvideo[height<=720]+bestaudio/best[height<=720]"
      [] q = "480p" -> "bestvideo[height<=480]+bestaudio/best[height<=480]"
      [] q = "worst" -> "worstvideo+worstaudio/worst"
      [] OTHER -> "bestvideo+bestaudio/best"

\* variant: "except KeyboardInterrupt" is missing from the loop, "except
\* Exception" is a bare "except" that also catches the interrupt
SvAfterAttemptInterruptRetried(a, o) ==
    CASE o = "ok" -> [do |-> "return", value |-> "True"]
      [] OTHER -> IF a < max_retries THEN [do |-> "sleep"]
                  ELSE [do |-> "return", value |-> "False"]

\* variant: the next attempt is started at once, time.sleep(3) is missing
SvAfterAttemptNoSleep(a, o) ==
    CASE o = "ok" -> [do |-> "return", value |-> "True"]
      [] o = "interrupt" -> [do |-> "return", value |-> "False"]
      [] OTHER -> IF a < max_retries THEN [do |-> "next"]
                  ELSE [do |-> "return", value |-> "False"]

\* the body of "for attempt in range(1, max_retries + 1)" of
\* download_single_video once attempt a has ended with outcome o
SvAfterAttempt(a, o) ==
    CASE o = "ok" -> [do |-> "return", value |-> "True"]
      [] o = "interrupt" -> [do |-> "return", value |-> "False"]
      [] OTHER -> IF a < max_retries THEN [do |-> "sleep"]
                  ELSE [do |-> "return", value |-> "False"]

\* the attempt of download_single_video ends
SvAttemptEnds(o) ==
    /\ sv_pc = "attempt"
    /\ sv_hist' = Append(sv_hist, o)
    /\ LET r == SvAfterAttempt(sv_attempt, o) IN
         CASE r.do = "return" ->
                /\ sv_pc' = "returned"
                /\ sv_ret' = r.value
                /\ UNCHANGED sv_attempt
           [] r.do = "sleep" ->
                /\ sv_pc' = "sleep"
                /\ UNCHANGED <<sv_ret, sv_attempt>>
           [] r.do = "next" ->
                /\ sv_pc' = "attempt"
                /\ sv_attempt' = sv_attempt + 1
                /\ UNCHANGED sv_ret
    /\ UNCHANGED <<pc, max_workers, video_range, playlist, videos, submitted,
                   work_queue, fut, attempt, last, result, successful, failed,
                   interrupted, started_at_interrupt, loaded, seqVars, fixVars, entryVars, guiVars,
                   sv_quality>>

\* time.sleep(3) of download_single_video returns, or Ctrl-C ends it: the
\* sleep after a non-zero exit is inside the try block ("except
\* KeyboardInterrupt" returns False), the sleep of "except Exception" is not
\* (the interrupt leaves the function)
SvSleepEnds(ctrlC) ==
    /\ sv_pc = "sleep"
    /\ IF ~ctrlC
       THEN IF sv_attempt + 1 <= max_retries
            THEN /\ sv_pc' = "attempt"
                 /\ sv_attempt' = sv_attempt + 1
                 /\ UNCHANGED sv_ret
            ELSE /\ sv_pc' = "returned"
                 /\ sv_ret' = "False"
                 /\ UNCHANGED sv_attempt
       ELSE /\ UNCHANGED sv_attempt
            /\ IF sv_hist[Len(sv_hist)] = "exit"
               THEN sv_pc' = "returned" /\ sv_ret' = "False"
               ELSE sv_pc' = "raised" /\ UNCHANGED sv_ret
    /\ UNCHANGED <<pc, max_workers, video_range, playlist, videos, submitted,
                   work_queue, fut, attempt, last, result, successful, failed,
                   interrupted, started_at_interrupt, loaded, seqVars, fixVars, entryVars, guiVars,
                   sv_quality, sv_hist>>

\* --------------------------------------------------------- download_playlist
\* how the one yt-dlp process of download_playlist can end: exit code 0,
\* another exit code, Popen raises an OSError (no yt-dlp), or Ctrl-C
DpOutcomes == {"exit0", "exit_nonzero", "oserror", "interrupt"}

\* the try block of download_playlist: after process.wait() the summary is
\* printed and True is returned (process.returncode is not read); "except
\* subprocess.CalledProcessError" matches nothing Popen or wait raise;
\* "except KeyboardInterrupt" returns False
DpAfterProcess(o) ==
    CASE o \in {"exit0", "exit_nonzero"} -> [do |-> "return", value |-> "True"]
      [] o = "interrupt" -> [do |-> "return", value |-> "False"]
      [] o = "oserror" -> [do |-> "raise"]

\* the yt-dlp process of download_playlist ends
DpProcessEnds(o) ==
    /\ dp_pc = "run"
    /\ dp_last' = o
    /\ LET r == DpAfterProcess(o) IN
         IF r.do = "return"
         THEN dp_pc' = "returned" /\ dp_ret' = r.value
         ELSE dp_pc' = "raised" /\ UNCHANGED dp_ret
    /\ UNCHANGED <<pc, max_workers, video_range, playlist, videos, submitted,
                   work_queue, fut, attempt, last, result, successful, failed,
                   interrupted, started_at_interrupt, loaded, singleVars,
                   fixVars, entryVars, guiVars>>

\* ---------------------------------------- fix_mp3_metadata, read_metadata
\* read_metadata(mp3_file): the five tags as strings, or None when MP3(...)
\* raises
ReadMetadata(file) ==
    IF file.readable THEN [isNone |-> FALSE, tags |-> file.tags]
    ELSE [isNone |-> TRUE, tags |-> NoTags]

\* fix_mp3_metadata up to its first prompt: "if not Path(mp3_file).exists():
\* return False", "current = read_metadata(mp3_file)", and the f-string of
\* the first input(), which evaluates current.get('title', '')
FixReads ==
    /\ fm_pc = "start"
    /\ IF ~fm_file.exists
       THEN /\ fm_pc' = "returned"
            /\ fm_ret' = "False"
            /\ UNCHANGED fm_current
       ELSE /\ fm_current' = ReadMetadata(fm_file)
            /\ fm_pc' = IF fm_current'.isNone THEN "raised" ELSE "prompt"
            /\ UNCHANGED fm_ret
    /\ UNCHANGED <<pc, max_workers, video_range, playlist, videos, submitted,
                   work_queue, fut, attempt, last, result, successful, failed,
                   interrupted, started_at_interrupt, loaded, singleVars,
                   seqVars, entryVars, guiVars, fm_file>>

\* "new_metadata[f] = entry if entry else current.get(f, '')" for the five tags
NewMetadata(entered, current) ==
    [f \in Tags |-> IF entered[f] # "" THEN entered[f] ELSE current.tags[f]]

\* the tags of the file after apply_metadata saved it: "if metadata.get(f):
\* delall(frame); add(frame(text=metadata[f]))" for the five tags
AppliedTags(tags, metadata) ==
    [f \in Tags |-> IF metadata[f] # "" THEN metadata[f] ELSE tags[f]]

\* the five answers are typed (nothing, or a new value), the cover art is
\* skipped, and apply_metadata returns True after audio.save, or False when
\* an exception is caught on the way to it
FixApplies(entered, saved) ==
    /\ fm_pc = "prompt"
    /\ fm_pc' = "returned"
    /\ IF saved
       THEN /\ fm_file' = [fm_file EXCEPT
                              !.tags = AppliedTags(@, NewMetadata(entered, fm_current))]
            /\ fm_ret' = "True"
       ELSE /\ fm_ret' = "False"
            /\ UNCHANGED fm_file
    /\ UNCHANGED <<pc, max_workers, video_range, playlist, videos, submitted,
                   work_queue, fut, attempt, last, result, successful, failed,
                   interrupted, started_at_interrupt, loaded, singleVars,
                   seqVars, entryVars, guiVars, fm_current>>

\* the steps of download_playlist_parallel, its pool and its workers
RunnerNext ==
    \/ AddIndexStep
    \/ Submit
    \/ StartJob
    \/ \E i \in Slots, o \in Outcomes : AttemptEnds(i, o)
    \/ \E i \in Slots : BackoffEnds(i)
    \/ \E i \in Slots : CollectBegin(i)
    \/ \E i \in Slots : CollectEnd(i)
    \/ Finish

Next ==
    \/ FetchPlaylist
    \/ RunnerNext
    \/ KeyboardInterrupt
    \/ ShutdownDone
    \/ \E o \in SvOutcomes : SvAttemptEnds(o)
    \/ \E c \in BOOLEAN : SvSleepEnds(c)
    \/ \E o \in DpOutcomes : DpProcessEnds(o)
    \/ FixReads
    \/ \E entered \in [Tags -> {"", "new"}], saved \in BOOLEAN : FixApplies(entered, saved)

Spec == Init /\ [][Next]_vars

\* ------------------------------------------------- the worker-count prompts
\* default of the parameter max_workers and of every prompt
DefaultWorkers == 3
\* the limits of "max(1, min(workers, 10))"
LeastWorkers == 1
MostWorkers == 10

\* the menu paths that end in download_playlist_parallel: choices 3, 4 and 5
\* of main (choice 4 also with "Use parallel downloads?" answered n) and the
\* GUI with "parallel" ticked
Paths == {"cli3", "cli4", "cli4_sequential", "cli5", "gui"}

\* what can be typed: nothing, a text that is no integer, an integer
WorkerEntries ==
    {[kind |-> "empty", val |-> 0], [kind |-> "text", val |-> 0]}
    \cup {[kind |-> "int", val |-> n] : n \in -1..12}

\* int(s): the value, or ValueError for the empty string and for other text
ParseInt(e) == IF e.kind = "int" THEN [ok |-> TRUE, val |-> e.val]
               ELSE [ok |-> FALSE, val |-> 0]

\* variant: "min(workers, 10)" without the "max(1, ...)"
ClampUpperOnly(n) == Min(n, MostWorkers)

\* max(1, min(workers, 10))
Clamp(n) == Max(LeastWorkers, Min(n, MostWorkers))

\* main: "workers = int(workers) if workers else 3", the clamp, and
\* "except ValueError: workers = 3"
WorkersCLI(e) ==
    IF e.kind = "empty" THEN Clamp(DefaultWorkers)
    ELSE IF ParseInt(e).ok THEN Clamp(ParseInt(e).val)
    ELSE DefaultWorkers

\* DownloaderGUI.start_download: "workers = int(self.workers.get())", the
\* clamp, and "except ValueError: workers = 3"
WorkersGUI(e) ==
    IF ParseInt(e).ok THEN Clamp(ParseInt(e).val) ELSE DefaultWorkers

\* the max_workers argument each path passes
WorkersFor(p, e) ==
    CASE p \in {"cli3", "cli4", "cli5"} -> WorkersCLI(e)
      [] p = "cli4_sequential" -> 1
      [] p = "gui" -> WorkersGUI(e)

\* the menus are up and the worker count is about to be read
InitCLI ==
    /\ pc = "prompt"
    /\ path \in Paths
    /\ workers_entry \in WorkerEntries
    /\ path = "cli4_sequential" => workers_entry = NoEntry
    /\ max_workers = DefaultWorkers
    /\ video_range = <<>>
    /\ RunnerIdle
    /\ GuiOff
    /\ SequentialOff
    /\ FixOff
    /\ SingleOff

\* the worker count is read and download_playlist_parallel is called
ReadWorkers ==
    /\ pc = "prompt"
    /\ max_workers' = WorkersFor(path, workers_entry)
    /\ pc' = "fetch"
    /\ UNCHANGED <<video_range, playlist, videos, submitted, work_queue, fut,
                   attempt, last, result, successful, failed, interrupted,
                   started_at_interrupt, loaded, singleVars, seqVars, fixVars, entryVars, guiVars>>

NextCLI ==
    \/ ReadWorkers
    \/ FetchPlaylist
    \/ RunnerNext
    \/ KeyboardInterrupt
    \/ ShutdownDone

SpecCLI == InitCLI /\ [][NextCLI]_vars

\* ------------------------------------------- DownloaderGUI.start_download
\* most clicks on "Download" that start a thread in the model
MaxStarts == 2

\* what stands in the field for the worker count: a text that is no
\* integer, 1 or 2
GuiEntries == {[kind |-> "text", val |-> 0], [kind |-> "int", val |-> 1],
               [kind |-> "int", val |-> 2]}

\* what stands in a field of the range: a text that is no integer, or 1
GuiRangeEntries == {[kind |-> "text", val |-> 0], [kind |-> "int", val |-> 1]}

\* "video_range = None; if self.use_range.get(): try: ... video_range =
\* (start, end) except ValueError: ..."
GuiRange(use_range, s, e) ==
    IF use_range /\ ParseInt(s).ok /\ ParseInt(e).ok THEN <<ParseInt(s).val, ParseInt(e).val>>
    ELSE <<>>

\* a thread that start_download has just started
NewThread == [st |-> "downloading", ret |-> "none", nfailed |-> 0]

\* the download threads that have not yet passed "self.downloading = False"
DownloadThreads == {t \in 1..Len(gui_th) : gui_th[t].st = "downloading"}

\* how the call of download_playlist_parallel ended for its caller: "return
\* True" after the summary, "return False" after a failed fetch, an exception
CallResult ==
    CASE pc = "done" -> "True"
      [] pc = "failed" -> "False"
      [] pc = "error" -> "raised"

\* variant: the handler "except Exception" does not touch the flag
FlagAfterDownloadNoHandler(ret, flag) == IF ret = "raised" THEN flag ELSE FALSE

\* self.downloading after the call: "self.downloading = False" follows the
\* call in the try block and is repeated in "except Exception"
FlagAfterDownload(ret, flag) == FALSE

SuccessMessage == "All downloads completed successfully!"

\* the line the thread logs: "if success: ... else: ..." and the handler
GuiMessage(ret) ==
    CASE ret = "True" -> SuccessMessage
      [] ret = "False" -> "Download failed or incomplete"
      [] ret = "raised" -> "Error: str(e)"

\* the window is up, nothing was clicked
InitGUI ==
    /\ pc = "gui_idle"
    /\ path = "gui"
    /\ workers_entry = NoEntry
    /\ max_workers = DefaultWorkers
    /\ video_range = <<>>
    /\ RunnerIdle
    /\ GuiOff
    /\ SequentialOff
    /\ FixOff
    /\ SingleOff

\* a click on "Download" with "playlist" and "parallel" chosen: the whole of
\* start_download, and of the new thread up to its call of
\* download_playlist_parallel(url, output_dir, quality, workers, video_range)
StartDownload ==
    IF downloading
    THEN /\ gui_dialog' = "Download already in progress"
         /\ UNCHANGED <<pc, max_workers, video_range, playlist, videos, submitted,
                        work_queue, fut, attempt, last, result, successful, failed,
                        interrupted, started_at_interrupt, loaded, singleVars,
                        seqVars, fixVars, entryVars, downloading, gui_th, gui_log>>
    ELSE \E url_empty \in BOOLEAN :
    IF url_empty
    THEN /\ gui_dialog' = "Please enter a URL"
         /\ UNCHANGED <<pc, max_workers, video_range, playlist, videos, submitted,
                        work_queue, fut, attempt, last, result, successful, failed,
                        interrupted, started_at_interrupt, loaded, singleVars,
                        seqVars, fixVars, entryVars, downloading, gui_th, gui_log>>
    ELSE /\ Len(gui_th) < MaxStarts
         /\ gui_log' = "none"
         /\ downloading' = TRUE
         /\ gui_th' = Append(gui_th, NewThread)
         /\ \E w \in GuiEntries :
               /\ workers_entry' = w
               /\ max_workers' = WorkersGUI(w)
         /\ \E use_range \in BOOLEAN, s, e \in GuiRangeEntries :
               video_range' = GuiRange(use_range, s, e)
         /\ pc' = "fetch"
         /\ playlist' = [isNone |-> TRUE, entries |-> <<>>]
         /\ videos' = <<>>
         /\ submitted' = 0
         /\ work_queue' = <<>>
         /\ fut' = <<>>
         /\ attempt' = <<>>
         /\ last' = <<>>
         /\ result' = <<>>
         /\ successful' = 0
         /\ failed' = <<>>
         /\ loaded' = 0
         /\ UNCHANGED <<interrupted, started_at_interrupt, singleVars, seqVars, fixVars,
                        path, gui_dialog>>

\* Path(output_dir).mkdir or subprocess.run of get_playlist_info raises an
\* OSError, which neither function catches
CallRaises ==
    /\ pc = "fetch"
    /\ path = "gui"
    /\ pc' = "error"
    /\ UNCHANGED <<max_workers, video_range, playlist, videos, submitted,
                   work_queue, fut, attempt, last, result, successful, failed,
                   interrupted, started_at_interrupt, loaded, singleVars,
                   seqVars, fixVars, entryVars, guiVars>>

\* the call has ended in thread t: "self.progress.stop(); self.downloading =
\* False", in the try block or in the handler
DownloadEnds(t) ==
    /\ t \in DownloadThreads
    /\ pc \in {"done", "failed", "error"}
    /\ downloading' = FlagAfterDownload(CallResult, downloading)
    /\ gui_th' = [gui_th EXCEPT ![t] = [st |-> "reporting", ret |-> CallResult,
                                        nfailed |-> Len(failed)]]
    /\ UNCHANGED <<pc, max_workers, video_range, playlist, videos, submitted,
                   work_queue, fut, attempt, last, result, successful, failed,
                   interrupted, started_at_interrupt, loaded, singleVars,
                   seqVars, fixVars, entryVars, gui_dialog, gui_log>>

\* thread t logs its last line, shows its message box and ends
ThreadReports(t) ==
    /\ t \in 1..Len(gui_th)
    /\ gui_th[t].st = "reporting"
    /\ gui_log' = GuiMessage(gui_th[t].ret)
    /\ gui_th' = [gui_th EXCEPT ![t].st = "ended"]
    /\ UNCHANGED <<pc, max_workers, video_range, playlist, videos, submitted,
                   work_queue, fut, attempt, last, result, successful, failed,
                   interrupted, started_at_interrupt, loaded, singleVars,
                   seqVars, fixVars, entryVars, downloading, gui_dialog>>

\* get_playlist_info in the thread: it fails, or returns 0, 1 or 2 entries
FetchGUI ==
    \E isNone \in BOOLEAN, len \in 0..2 : (isNone => len = 0) /\ Fetch(isNone, len)

NextGUI ==
    \/ StartDownload
    \/ CallRaises
    \/ FetchGUI
    \/ RunnerNext
    \/ \E t \in 1..MaxStarts : DownloadEnds(t)
    \/ \E t \in 1..MaxStarts : ThreadReports(t)

SpecGUI == InitGUI /\ [][NextGUI]_vars

TypeOK ==
    /\ pc \in {"fetch", "failed", "index", "submit", "collect", "done", "shutdown",
              "aborted", "single", "prompt", "gui_idle", "error", "sequential",
              "fix"}
    /\ fm_pc \in {"off", "start", "prompt", "returned", "raised"}
    /\ fm_ret \in {"none", "True", "False"}
    /\ dp_pc \in {"off", "run", "returned", "raised"}
    /\ dp_ret \in {"none", "True", "False"}
    /\ downloading \in BOOLEAN
    /\ \A t \in 1..Len(gui_th) : gui_th[t].st \in {"downloading", "reporting", "ended"}
    /\ max_workers \in 1..10 \cup 1..MaxWorkers
    /\ sv_pc \in {"off", "attempt", "sleep", "returned", "raised"}
    /\ sv_attempt \in 0..max_retries
    /\ sv_ret \in {"none", "True", "False"}
    /\ loaded \in 0..Len(videos)
    /\ submitted \in 0..Len(videos)
    /\ successful \in 0..Len(videos)
    /\ started_at_interrupt \in 0..Len(videos)
    /\ \A i \in Slots : /\ fut[i] \in {"unsubmitted", "queued", "running", "backoff",
                                      "finished", "raised", "cancelled", "collecting",
                                      "collected"}
                        /\ attempt[i] \in 0..max_retries
                        /\ last[i] \in Outcomes \cup {"none"}


\* ------------------------------------------------------- states of a job
\* the job states of the specification, read off the future and its result
JobState(i) ==
    CASE fut[i] \in {"unsubmitted", "queued"} -> "Pending"
      [] fut[i] = "running" -> "Running"
      [] fut[i] = "backoff" -> "Retrying"
      [] fut[i] = "cancelled" -> "Cancelled"
      [] fut[i] = "raised" -> "Failed"
      [] fut[i] \in {"finished", "collecting", "collected"} ->
            IF result[i].success THEN "Succeeded" ELSE "Failed"

Running == {i \in Slots : JobState(i) = "Running"}
Terminal(i) == JobState(i) \in {"Succeeded", "Failed", "Cancelled"}
CancelledJobs == {i \in Slots : JobState(i) = "Cancelled"}

\* the function has returned or the exception has left it
RunEnded == pc \in {"done", "failed", "aborted"}
\* the summary block after the with statement has been printed
ReportProduced == pc = "done"

\* the result of job i is in the report exactly once
ReportedOnce(i) ==
    /\ fut[i] = "collected"
    /\ ~result[i].success =>
          Cardinality({k \in 1..Len(failed) : failed[k] = result[i]}) = 1

\* ----------------------------------------------------------------- claims

\* C1: once a run on a playlist of N >= 0 entries has ended (without an
\* interrupt), the report has been produced and holds exactly one result per
\* job, N = 0 included.  Fails: for an empty playlist "if not videos" returns
\* False with "Failed to fetch playlist information" and no report.
C1_OneResultPerJob ==
    (RunEnded /\ ~playlist.isNone /\ ~interrupted) =>
        /\ ReportProduced
        /\ successful + Len(failed) = Len(videos)
        /\ successful = Cardinality({i \in Slots : result[i].success})
        /\ \A i \in Slots : ReportedOnce(i)

\* C2: at every instant the number of jobs whose attempt is executing is at
\* most max_workers.
C2_RunningAtMostW == Cardinality(Running) <= max_workers

\* all workers are executing an attempt while a further job waits in the queue
C2_Witness == Cardinality(Running) = max_workers /\ work_queue # <<>>

\* C3: a job whose attempts all fail is attempted exactly max_retries times,
\* never fewer and never more: it is Failed only after attempt max_retries has
\* failed, and it waits for a retry only while attempts remain.  (A job that
\* is Failed has had no successful attempt: a success ends the job.)
C3_AlwaysFailingGetsRAttempts ==
    \A i \in Slots :
        /\ attempt[i] <= max_retries
        /\ (fut[i] \in {"finished", "collecting", "collected"} /\ ~result[i].success) =>
              (attempt[i] = max_retries /\ last[i] \in Failures)
        /\ fut[i] = "backoff" => (attempt[i] < max_retries /\ last[i] \in Failures)
        /\ (fut[i] = "collected" /\ ~result[i].success) =>
              \E k \in 1..Len(failed) : failed[k] = result[i]

\* a job that timed out on its last attempt is in the report as failed after
\* max_retries attempts
C3_Witness ==
    /\ pc = "done"
    /\ \E i \in Slots : /\ JobState(i) = "Failed"
                        /\ attempt[i] = max_retries
                        /\ last[i] = "timeout"
                        /\ \E k \in 1..Len(failed) : failed[k] = result[i]

\* C4 as claimed: a job whose first attempt has ended in a permanent failure
\* is Failed after that one attempt.
C4_PermanentFailsAfterOne ==
    \A i \in Slots :
        (attempt[i] = 1 /\ last[i] = "exit_permanent") =>
            (fut[i] \in {"finished", "collecting", "collected"} /\ ~result[i].success)

\* C4 as amended: an attempt that ends in a permanent failure is handled like
\* any failed attempt: while attempts remain (so after the first attempt) the
\* job waits and retries, it becomes Failed only when attempt max_retries has
\* failed, and the step changes no other job's attempt counter or state.
C4_PermanentIsRetried ==
    [][\A i \in Slots :
          (fut[i] = "running" /\ fut'[i] # "running" /\ last'[i] = "exit_permanent") =>
              /\ IF attempt[i] < max_retries
                 THEN fut'[i] = "backoff" /\ result'[i] = result[i]
                 ELSE fut'[i] = "finished" /\ ~result'[i].success
              /\ attempt'[i] = attempt[i]
              /\ \A j \in Slots \ {i} : attempt'[j] = attempt[j] /\ fut'[j] = fut[j]
      ]_vars

\* a job waits for its retry after a permanent failure of its first attempt
\* while another job is executing
C4_Witness ==
    \E i \in Slots :
        /\ attempt[i] = 1 /\ last[i] = "exit_permanent" /\ fut[i] = "backoff"
        /\ \E j \in Slots \ {i} : fut[j] = "running"

\* C5: when attempt k of a job exits with code 0 the job is Succeeded at once
\* with k attempts made, and from then on it stays Succeeded and its attempt
\* counter never moves (the result dict itself carries no attempt count; the
\* count is the number of subprocess.run calls made).
C5_SucceedsOnAttemptK ==
    [][\A i \in Slots :
          /\ (fut[i] = "running" /\ fut'[i] # "running" /\ last'[i] = "ok") =>
                /\ fut'[i] = "finished"
                /\ result'[i].success
                /\ attempt'[i] = attempt[i]
          /\ JobState(i) = "Succeeded" =>
                /\ fut'[i] \in {"finished", "collecting", "collected"}
                /\ result'[i] = result[i]
                /\ attempt'[i] = attempt[i]
      ]_vars

\* a job that succeeded on its second attempt has been recorded
C5_Witness ==
    \E i \in Slots : /\ fut[i] = "collected" /\ result[i].success
                     /\ attempt[i] = 2 /\ last[i] = "ok" /\ successful >= 1

\* C6: the failed list of the final report is in playlist order.  Fails: the
\* list is appended to in completion order and never sorted.
C6_ReportInOrdinalOrder ==
    ReportProduced =>
        \A a, b \in 1..Len(failed) : a < b => failed[a].title < failed[b].title

\* C7: a run interrupted after some but not all jobs had started ends with a
\* report of one entry per job, the unstarted jobs Cancelled, the started ones
\* Succeeded or Failed.  Fails: the interrupt leaves the function through
\* shutdown(wait=True); no report is printed and no job is ever cancelled.
C7_CancelledRunReports ==
    (RunEnded /\ interrupted /\ started_at_interrupt > 0
              /\ started_at_interrupt < Len(videos)) =>
        /\ ReportProduced
        /\ successful + Len(failed) + Cardinality(CancelledJobs) = Len(videos)
        /\ \A i \in Slots :
              IF i <= started_at_interrupt
              THEN JobState(i) \in {"Succeeded", "Failed"}
              ELSE JobState(i) = "Cancelled"

\* C8: once the interrupt has been raised no attempt begins.  Fails: the pool
\* threads go on taking queued jobs and retrying until the queue is drained.
C8_NoAttemptAfterInterrupt ==
    [][interrupted =>
          \A i \in Slots : fut'[i] = "running" => fut[i] = "running"]_vars

\* C9: in the final report succeeded + failed + cancelled is the number of
\* jobs submitted, and at every instant succeeded + failed is at most that.
C9_CountsConsistent ==
    /\ successful + Len(failed) <= Len(videos)
    /\ successful + Len(failed) = Cardinality({i \in Slots : fut[i] = "collected"})
    /\ ReportProduced =>
          /\ submitted = Len(videos)
          /\ successful + Len(failed) + Cardinality(CancelledJobs) = submitted

\* a final report that counts a success and lists a failure
C9_Witness == ReportProduced /\ successful >= 1 /\ Len(failed) >= 1

\* C10: no failure of an attempt leaves the worker: the job gets a Failed
\* result, the coordinator leaves its loop early only on an interrupt, and a
\* run that has ended has brought every submitted job to a terminal state.
C10_FailureNeverAborts ==
    /\ \A i \in Slots :
          /\ fut[i] # "raised"
          /\ (fut[i] \in {"finished", "collecting", "collected"} /\ last[i] \in Failures) =>
                JobState(i) = "Failed"
    /\ pc \in {"shutdown", "aborted"} => interrupted
    /\ pc \in {"done", "aborted"} =>
          \A i \in Slots : fut[i] # "unsubmitted" => Terminal(i)
    /\ ReportProduced => \A i \in Slots : fut[i] = "collected"

\* the report is out with a job whose last attempt raised and a job that
\* succeeded
C10_Witness ==
    /\ ReportProduced
    /\ \E i, j \in Slots : /\ i # j
                           /\ last[i] = "exception" /\ JobState(i) = "Failed"
                           /\ JobState(j) = "Succeeded"

\* C11: the counter and the failed list have at most one writer at a time (the
\* loop body in the main thread), and no update is lost: they always hold
\* exactly the results whose iteration has ended.
C11_SingleWriter ==
    /\ Cardinality({i \in Slots : fut[i] = "collecting"}) <= 1
    /\ successful = Cardinality({i \in Slots : fut[i] = "collected" /\ result[i].success})
    /\ Len(failed) = Cardinality({i \in Slots : fut[i] = "collected" /\ ~result[i].success})

\* an update is under way while another finished job waits to be recorded
C11_Witness ==
    \E i, j \in Slots : /\ fut[i] = "collecting" /\ result[i].success
                        /\ fut[j] = "finished" /\ result[j].success

\* the edges of the job state machine of the specification
JobEdges ==
    {<<"Pending", "Running">>, <<"Running", "Succeeded">>, <<"Running", "Retrying">>,
     <<"Retrying", "Running">>, <<"Running", "Failed">>}
    \cup ({"Pending", "Running", "Retrying"} \X {"Cancelled"})

\* C12: a job changes state only along an edge of the state machine, so it
\* never leaves Succeeded, Failed or Cancelled, and when the report is out
\* every job is in one of these three (none is reported as Retrying).
C12_OnlyStateMachineEdges ==
    [][/\ \A i \in Slots :
             JobState(i)' # JobState(i) => <<JobState(i), JobState(i)'>> \in JobEdges
       /\ ReportProduced' => \A i \in Slots : Terminal(i)'
      ]_vars

\* the report is out with a job that went twice through Retrying and back to
\* Running before it succeeded
C12_Witness ==
    /\ ReportProduced
    /\ \E i \in Slots : JobState(i) = "Succeeded" /\ attempt[i] = max_retries

\* C13: the report is never produced while a job is Pending, Running or
\* Retrying, and a run of the runner in which a job was submitted can only
\* come to rest with the report produced and every job in a terminal state
\* (every attempt and every sleep ends, so a run that is not at rest goes on).
\* Fails: after Ctrl-C the run comes to rest with no report (see C7), and with
\* the jobs that were not yet submitted still Pending.
C13_EndsWithReport ==
    /\ ReportProduced => \A i \in Slots : Terminal(i)
    /\ (submitted >= 1 /\ ~ENABLED Next) =>
          (ReportProduced /\ \A i \in Slots : Terminal(i))

\* C14: while a job waits between a failed attempt and the next one, a job
\* waiting in the queue can be started.  Fails: time.sleep(3) runs inside the
\* pool thread, so the waiting job keeps its thread; with max_workers = 1 (or
\* with every thread so held) no queued job can start until the retries end.
C14_BackoffDoesNotBlock ==
    \A i \in Slots :
        (fut[i] = "backoff" /\ work_queue # <<>>) => ENABLED StartJob

\* C15: once a menu path has read the worker count, max_workers is in 1..10:
\* an integer typed is clamped into 1..10, nothing typed or a non-integer
\* gives 3 (and the sequential answer of choice 4 passes 1).
C15_WorkersWithinLimits ==
    pc # "prompt" =>
        /\ max_workers \in 1..10
        /\ path \in {"cli3", "cli4", "cli5", "gui"} =>
              IF workers_entry.kind = "int"
              THEN max_workers = (IF workers_entry.val < 1 THEN 1
                                  ELSE IF workers_entry.val > 10 THEN 10
                                  ELSE workers_entry.val)
              ELSE max_workers = 3
        /\ path = "cli4_sequential" => max_workers = 1

\* the GUI was given 12 and the runner works with 10 threads, two of them busy
C15_Witness ==
    /\ path = "gui" /\ workers_entry = [kind |-> "int", val |-> 12]
    /\ max_workers = 10
    /\ Cardinality(Running) = 2

\* ------------------------------------------- the five-job scenario of C16
\* a playlist of 5 videos, 2 workers, no range
InitScenario ==
    /\ pc = "fetch"
    /\ path = "call"
    /\ workers_entry = NoEntry
    /\ max_workers = 2
    /\ video_range = <<>>
    /\ RunnerIdle
    /\ GuiOff
    /\ SequentialOff
    /\ FixOff
    /\ SingleOff

FetchScenario == Fetch(FALSE, 5)

\* videos 1 and 2 fail on every attempt, for a cause a retry might remove;
\* videos 3, 4 and 5 exit with code 0 on their first attempt
ScenarioOutcomes(i) ==
    IF videos[i].title \in {1, 2} THEN {"exit", "timeout", "exception"} ELSE {"ok"}

NextScenario ==
    \/ FetchScenario
    \/ AddIndexStep
    \/ Submit
    \/ StartJob
    \/ \E i \in Slots : \E o \in ScenarioOutcomes(i) : AttemptEnds(i, o)
    \/ \E i \in Slots : BackoffEnds(i)
    \/ \E i \in Slots : CollectBegin(i)
    \/ \E i \in Slots : CollectEnd(i)
    \/ Finish

SpecScenario == InitScenario /\ [][NextScenario]_vars

RECURSIVE SumTo(_, _)
SumTo(f, n) == IF n = 0 THEN 0 ELSE f[n] + SumTo(f, n - 1)

\* the number of subprocess.run calls made so far, over all jobs
TotalAttempts == SumTo(attempt, Len(attempt))

\* C16: in the scenario the report shows videos 3, 4, 5 as Succeeded after 1
\* attempt each and videos 1, 2 as Failed after 3 attempts each, 9 attempts
\* in all, whatever the interleaving; in general the total is max_retries per
\* failed job plus 1 per job that succeeded at once, and is never exceeded
\* during the run.
C16_ScenarioNineAttempts ==
    /\ TotalAttempts <= 9
    /\ ReportProduced =>
          /\ Len(videos) = 5
          /\ \A i \in Slots :
                IF i \in {1, 2}
                THEN JobState(i) = "Failed" /\ attempt[i] = 3
                ELSE JobState(i) = "Succeeded" /\ attempt[i] = 1
          /\ successful = 3
          /\ {failed[k].title : k \in 1..Len(failed)} = {1, 2}
          /\ TotalAttempts = 9
          /\ TotalAttempts = max_retries * Len(failed) + successful

\* the report of the scenario is out, video 2 having failed before video 1
C16_Witness ==
    /\ ReportProduced /\ Len(videos) = 5 /\ TotalAttempts = 9
    /\ Len(failed) = 2 /\ failed[1].title = 2

\* C17 as claimed: from its construction on, no field of a job is added or
\* changed.
C17_JobNeverChanges ==
    [][\A i \in Slots : videos'[i] = videos[i]]_vars

\* C17 as amended: the index loop of the coordinator adds the field 'index' to
\* every job before any job is submitted and leaves its other fields alone;
\* from then on no step of the coordinator or of a worker adds or changes a
\* field of a job.
C17_JobFixedOnceIndexed ==
    [][/\ pc = "index" =>
             \A i \in Slots : /\ DOMAIN videos'[i] = DOMAIN videos[i] \cup {"index"}
                              /\ videos'[i].title = videos[i].title
                              /\ fut[i] = "unsubmitted"
       /\ pc \notin {"fetch", "index"} => videos' = videos
      ]_vars

\* a job that a worker has run and the coordinator has recorded carries the
\* index that its dict did not have when get_playlist_info built it
C17_Witness ==
    \E i \in Slots :
        /\ fut[i] = "collected"
        /\ "index" \in DOMAIN videos[i]
        /\ "index" \notin DOMAIN playlist.entries[videos[i].title]

\* C18: a non-zero exit, a timeout and an exception are handled alike: the
\* failed attempt is the one counted by "attempt", the job then sleeps when
\* attempts remain and is Failed when none does, and the sleep is followed by
\* attempt number attempt + 1, whatever the kinds of the failures before.
C18_UniformRetryPath ==
    [][\A i \in Slots :
          /\ (fut[i] = "running" /\ fut'[i] # "running" /\ last'[i] \in Failures) =>
                /\ attempt'[i] = attempt[i]
                /\ attempt[i] < max_retries => fut'[i] = "backoff"
                /\ attempt[i] = max_retries =>
                      (fut'[i] = "finished" /\ ~result'[i].success)
          /\ (fut[i] = "backoff" /\ fut'[i] # "backoff") =>
                (fut'[i] = "running" /\ attempt'[i] = attempt[i] + 1)
      ]_vars

\* one job makes its third attempt after a timeout of its second while
\* another job sleeps after an exception
C18_Witness ==
    \E i, j \in Slots :
        /\ fut[i] = "running" /\ attempt[i] = max_retries /\ last[i] = "timeout"
        /\ fut[j] = "backoff" /\ last[j] = "exception"

\* how the latest attempt of download_single_video ended
SvLast == IF sv_hist = <<>> THEN "none" ELSE sv_hist[Len(sv_hist)]

\* C19: in download_video_worker and in download_single_video a sleep starts
\* only after a failed attempt that is not the last allowed one, every such
\* attempt is followed by a sleep, every attempt after the first follows a
\* sleep, and so no sleep follows a success or the last failed attempt.
C19_BackoffOnlyBetweenAttempts ==
    [][/\ \A i \in Slots :
             /\ (fut'[i] = "backoff" /\ fut[i] # "backoff") =>
                   /\ fut[i] = "running" /\ last'[i] \in Failures
                   /\ attempt[i] < max_retries
             /\ (fut[i] = "running" /\ fut'[i] # "running" /\ last'[i] \in Failures
                                   /\ attempt[i] < max_retries) => fut'[i] = "backoff"
             /\ (fut[i] = "running" /\ fut'[i] # "running"
                    /\ (last'[i] = "ok" \/ attempt[i] = max_retries)) =>
                   fut'[i] = "finished"
             /\ (attempt[i] >= 1 /\ attempt'[i] # attempt[i]) =>
                   (fut[i] = "backoff" /\ attempt'[i] = attempt[i] + 1)
       /\ (sv_pc' = "sleep" /\ sv_pc # "sleep") =>
             /\ sv_pc = "attempt" /\ SvLast' \in {"exit", "exception"}
             /\ sv_attempt < max_retries
       /\ (sv_pc = "attempt" /\ sv_hist' # sv_hist /\ SvLast' \in {"exit", "exception"}
                             /\ sv_attempt < max_retries) => sv_pc' = "sleep"
       /\ (sv_pc = "attempt" /\ sv_hist' # sv_hist
              /\ (SvLast' \in {"ok", "interrupt"} \/ sv_attempt = max_retries)) =>
             sv_pc' = "returned"
       /\ sv_attempt' # sv_attempt =>
             (sv_pc = "sleep" /\ sv_attempt' = sv_attempt + 1)
      ]_vars

\* a job is in its second attempt, after the sleep that followed a non-zero
\* exit of its first, while another job has returned without a sleep
C19_Witness ==
    \E i, j \in Slots :
        /\ fut[i] = "running" /\ attempt[i] = 2 /\ last[i] = "exit"
        /\ fut[j] = "finished" /\ attempt[j] = 1 /\ last[j] = "ok"

\* C20: while the coordinator is in its loop and between two iterations,
\* every finished job can be recorded next, whatever its position and
\* whatever the state of the other jobs: the loop never waits for one
\* particular job.
C20_RecordsAnyFinished ==
    \A i \in Slots :
        (pc = "collect" /\ fut[i] = "finished" /\ LoopFree) => ENABLED CollectBegin(i)

\* the result of video 2 has been recorded while video 1 is still executing
C20_Witness ==
    \E i, j \in Slots :
        /\ i < j /\ fut[j] = "collected" /\ fut[i] = "running"
        /\ successful + Len(failed) = 1

\* C21: download_single_video makes at most max_retries attempts; no attempt
\* follows one that exited with code 0 or was interrupted; it returns True
\* exactly when an attempt exited with code 0, False after max_retries failed
\* attempts, and False at once when an attempt is interrupted.
C21_SingleVideoResult ==
    /\ Len(sv_hist) <= max_retries
    /\ sv_attempt <= max_retries
    /\ sv_pc = "attempt" => Len(sv_hist) = sv_attempt - 1
    /\ sv_pc \in {"sleep", "returned", "raised"} => Len(sv_hist) = sv_attempt
    /\ \A k \in 1..(Len(sv_hist) - 1) : sv_hist[k] \notin {"ok", "interrupt"}
    /\ sv_pc = "returned" =>
          (sv_ret = "True" <=> \E k \in 1..Len(sv_hist) : sv_hist[k] = "ok")
    /\ SvLast = "ok" => (sv_pc = "returned" /\ sv_ret = "True")
    /\ SvLast = "interrupt" => (sv_pc = "returned" /\ sv_ret = "False")
    /\ (/\ Len(sv_hist) = max_retries
        /\ \A k \in 1..Len(sv_hist) : sv_hist[k] \in {"exit", "exception"}) =>
          (sv_pc = "returned" /\ sv_ret = "False")

\* the second attempt was interrupted after the first had failed, and False
\* was returned with an attempt left
C21_Witness ==
    /\ sv_pc = "returned" /\ sv_ret = "False"
    /\ sv_hist = <<"exit", "interrupt">>

\* the label of playlist position p: str(p).zfill(3)
PositionLabel(p) == Zfill(PyStr(p), ZfillWidth)

\* C22: once the indices are added, the 'index' of every job is the label of
\* the job's 1-based position in the playlist get_playlist_info returned,
\* whatever video_range was passed.
C22_IndexIsPlaylistPosition ==
    \A i \in Slots :
        "index" \in DOMAIN videos[i] => videos[i].index = PositionLabel(videos[i].title)

\* the playlist positions of the jobs, in the order of the list "videos"
Positions == [i \in 1..Len(videos) |-> videos[i].title]

\* the positions lo..hi in increasing order (none when hi < lo)
Interval(lo, hi) == [k \in 1..Max(0, hi - lo + 1) |-> lo + k - 1]

\* C23: once a non-empty playlist of length L is filtered by video_range =
\* (start, end), the jobs are the positions max(1, start)..min(L, end) in
\* playlist order, and a run that ends with no job has counted 0 of 0.
C23_JobsAreTheClampedInterval ==
    (video_range # <<>> /\ pc \in {"index", "submit", "collect", "shutdown", "aborted", "done"}) =>
        /\ Positions = Interval(Max(1, video_range[1]),
                                Min(Len(playlist.entries), video_range[2]))
        /\ (pc = "done" /\ Positions = <<>>) =>
              (submitted = 0 /\ successful = 0 /\ failed = <<>>)

\* C24: a download thread of the GUI logs "All downloads completed
\* successfully!" only if the run it made recorded no failed job.
C24_SuccessOnlyWithoutFailures ==
    \A t \in 1..Len(gui_th) :
        (gui_th[t].st = "ended" /\ GuiMessage(gui_th[t].ret) = SuccessMessage) =>
            gui_th[t].nfailed = 0

\* C25: at most one thread of the GUI is in its download at any time; the
\* flag "downloading" is set exactly while one is, whether the download
\* returned True, returned False or raised, so that the next click is
\* accepted; and a click made while the flag is set changes nothing but the
\* message box it shows.
C25_OneDownloadAtATime ==
    [][/\ Cardinality(DownloadThreads') <= 1
       /\ downloading' <=> DownloadThreads' # {}
       /\ (downloading /\ gui_dialog' # gui_dialog) =>
             UNCHANGED <<pc, max_workers, video_range, playlist, videos, submitted,
                         work_queue, fut, attempt, last, result, successful, failed,
                         interrupted, started_at_interrupt, loaded, singleVars,
                         seqVars, fixVars, entryVars, downloading, gui_th, gui_log>>
       /\ (~downloading /\ Len(gui_th') > Len(gui_th)) =>
             (downloading' /\ DownloadThreads' = {Len(gui_th')})
      ]_vars

\* a first download ended with an exception, a second one was then started,
\* and a click made while the flag was set was turned down
C25_Witness ==
    /\ Len(gui_th) = 2
    /\ gui_th[1].st = "ended" /\ gui_th[1].ret = "raised"
    /\ gui_th[2].st = "downloading"
    /\ downloading
    /\ gui_dialog = "Download already in progress"

\* C26: a job leaves Pending for Running only when every job of lower
\* ordinal has left Pending, whatever max_workers is and whichever job
\* completes first.
C26_StartedInSubmissionOrder ==
    [][\A i \in Slots :
          (JobState(i) = "Pending" /\ JobState(i)' = "Running") =>
              \A j \in 1..(i - 1) : JobState(j) # "Pending"
      ]_vars

\* video 2 was started while video 1, started before it, is in its third
\* attempt, and video 2 has completed first
C26_Witness ==
    /\ Len(videos) = 2
    /\ fut[1] = "running" /\ attempt[1] = max_retries
    /\ fut[2] = "collected"

\* C27: the error of a failed job is the text for the way its final attempt
\* ended ("Max retries exceeded" for a non-zero exit, "Timeout" for a
\* timeout, the exception text for an exception), in the worker's result and
\* in the entry of the list "failed", whatever the attempt before was.
C27_ErrorOfFinalAttempt ==
    [][\A i \in Slots :
          /\ (fut[i] = "running" /\ fut'[i] = "finished" /\ ~result'[i].success) =>
                /\ attempt[i] = max_retries
                /\ last'[i] \in {"exit", "exit_permanent"} =>
                      result'[i].error = "Max retries exceeded"
                /\ last'[i] = "timeout" => result'[i].error = "Timeout"
                /\ last'[i] = "exception" => result'[i].error = "str(e)"
          /\ (fut[i] = "collecting" /\ fut'[i] = "collected" /\ ~result[i].success) =>
                /\ failed'[Len(failed')] = result[i]
                /\ result'[i] = result[i]
      ]_vars

\* the list "failed" holds a job whose last attempt timed out and a job whose
\* last attempt raised
C27_Witness ==
    /\ Len(failed) = 2
    /\ \E i, j \in Slots :
          /\ last[i] = "timeout" /\ failed[1] = result[i] /\ failed[1].error = "Timeout"
          /\ last[j] = "exception" /\ failed[2] = result[j] /\ failed[2].error = "str(e)"

\* C28: download_playlist returns False whenever its yt-dlp process ended
\* with a non-zero exit code, and True only when it ended with exit code 0.
C28_SequentialReturnsExitStatus ==
    dp_pc = "returned" =>
        /\ dp_last = "exit_nonzero" => dp_ret = "False"
        /\ dp_ret = "True" => dp_last = "exit0"

\* C29: fix_mp3_metadata never raises: for a file that exists, readable or
\* not, it ends with True or False, and every tag of the file is then as it
\* was read or as the user entered it.
C29_FixNeverRaises ==
    /\ fm_pc # "raised"
    /\ fm_pc = "returned" =>
          /\ fm_ret \in {"True", "False"}
          /\ fm_file.exists =>
                \A f \in Tags : fm_file.tags[f] \in {fm_current.tags[f], "new"}

====
